---- MODULE Spec2Model ----
(***************************************************************************)
(* The two colour-reduction scripts of the repository:                     *)
(*   color_quantizer.py  per-channel step quantization ("uniform")         *)
(*   shader_down.py      k-means palette quantization  ("cluster")         *)
(* One run of one script is modelled: load, quantize, reattach alpha,      *)
(* save, exit.                                                             *)
(***************************************************************************)
EXTENDS Integers, Sequences, FiniteSets, TLC

\* ------------------------------------------------------------- bounds
\* Largest number of pixels (W*H) of an input image.
MaxPixels == 3
\* Largest value of the --colors argument.
MaxCount == 3

\* The (R,G,B) triples input pixels are drawn from: black, white (the
\* sample 255), and a colour with the mid samples 200 and 100.
Colors == { <<0, 0, 0>>, <<255, 255, 255>>, <<200, 0, 100>> }
\* The alpha samples input pixels are drawn from.
Alphas == {0, 255}
\* Values of the --colors argument: invalid ones (-1, 0), and 1..MaxCount.
Counts == {0 - 1, 0} \cup (1..MaxCount)
\* What a float64 -> uint8 cast of a value outside 0..255 (or of inf)
\* yields is undefined in C; numpy builds either keep the low byte of the
\* truncated integer (x86) or saturate (ARM).
CastModes == {"wrap", "saturate"}

SeqsUpTo(S, n) == UNION { [1..m -> S] : m \in 0..n }

\* The decodable files: 3-channel and 4-channel pixel buffers.
Files ==
    { [mode |-> "RGB", rgb |-> p, alpha |-> << >>] : p \in SeqsUpTo(Colors, MaxPixels) }
    \cup UNION { { [mode |-> "RGBA", rgb |-> p, alpha |-> a] :
                     a \in [1..Len(p) -> Alphas] } :
                 p \in SeqsUpTo(Colors, MaxPixels) }

NoImage == [mode |-> "none", rgb |-> << >>, alpha |-> << >>]

VARIABLES
    script,     \* which script runs: "uniform" or "cluster"
    file,       \* what image_path decodes to
    png,        \* image_path.lower().endswith('.png')
    num,        \* args.colors
    castMode,   \* the build's out-of-range float -> uint8 behaviour
    pc,         \* position of the run
    steps,      \* the steps completed so far, in order
    img,        \* the loaded image
    original,   \* original_colors / original_color_count
    numColors,  \* shader_down: num_colors after the cap of line 56-58
    labels,     \* shader_down: kmeans labels, one per pixel (0-based)
    centers,    \* shader_down: centers.astype(np.uint8)
    qRgb,       \* img_quantized / quantized_pixels (RGB part)
    res,        \* the output image handed to save
    writes,     \* number of output files written
    exitCode,   \* process exit code, -1 while running
    err         \* the exception that ended the run, "none" if none

vars == << script, file, png, num, castMode, pc, steps, img, original,
           numColors, labels, centers, qRgb, res, writes, exitCode, err >>

\* ------------------------------------------------------- pure helpers
Min(a, b) == IF a <= b THEN a ELSE b

\* len(np.unique(x.reshape(-1, 3), axis=0))
CountUnique(rgb) == Cardinality({ rgb[i] : i \in 1..Len(rgb) })

\* 'A' in image.mode
HasAlpha(im) == im.mode = "RGBA"

\* Image.convert('RGBA'): an image without alpha becomes fully opaque.
ConvertRGBA(im) ==
    [mode |-> "RGBA", rgb |-> im.rgb,
     alpha |-> IF HasAlpha(im) THEN im.alpha ELSE [i \in 1..Len(im.rgb) |-> 255]]

\* Image.convert('RGB'): the alpha channel is dropped.
ConvertRGB(im) == [mode |-> "RGB", rgb |-> im.rgb, alpha |-> << >>]

\* color_quantizer.load_image, the branch that decodes.
LoadImage(f, isPng) == IF isPng THEN ConvertRGBA(f) ELSE f

\* astype(np.uint8) of a finite float whose truncation is t >= 0.
CastUint8(t, cast) ==
    IF t <= 255 THEN t
    ELSE IF cast = "wrap" THEN t % 256 ELSE 255

\* One sample through lines 42-48 of color_quantizer.py:
\*   floor(v / 255.0 * n) / (n - 1) * 255, then astype(np.uint8).
\* For n < 51 the float64 results equal the exact quotients used here.
\* n = 1 divides by zero: numpy yields nan (0/0) or inf (level/0) and
\* the cast of those is undefined: nan -> 0; inf -> 0 (wrap) or 255.
QuantizeSample(v, n, cast) ==
    LET level == (v * n) \div 255
    IN  IF n = 1
        THEN IF level = 0 \/ cast = "wrap" THEN 0 ELSE 255
        ELSE IF n > 1
        THEN CastUint8((level * 255) \div (n - 1), cast)
        ELSE CastUint8(((0 - level) * 255) \div (1 - n), cast)

\* Lines 42-48 on the whole RGB array.
QuantizeChannels(rgb, n, cast) ==
    [i \in 1..Len(rgb) |-> [c \in 1..3 |-> QuantizeSample(rgb[i][c], n, cast)]]

\* Lines 51-55 of color_quantizer.py: fromarray, and putalpha if needed.
Reattach(q, hasAlpha, alpha) ==
    IF hasAlpha
    THEN [mode |-> "RGBA", rgb |-> q, alpha |-> alpha]
    ELSE [mode |-> "RGB", rgb |-> q, alpha |-> << >>]

\* ------------------------------------------------ shader_down helpers
\* Lines 56-58 of shader_down.py: the cap of num_colors at the number of
\* distinct colours.
\* Variant: the assignment of line 58 outside its `if` (always the cap).
EffectiveNumColors_Dedent(k, d) == d
EffectiveNumColors(k, d) == IF d <= k THEN d ELSE k

\* The pixels (indices) carrying label j.
Members(lab, j) == { i \in DOMAIN lab : lab[i] = j }

RECURSIVE SumOver(_, _, _)
\* Sum of channel c over the pixels of index set I.
SumOver(X, I, c) ==
    IF I = {} THEN 0
    ELSE LET i == CHOOSE i \in I : TRUE
         IN  X[i][c] + SumOver(X, I \ {i}, c)

\* |I|^2 times the squared distance of x to the mean of the pixels I.
ScaledDist2(x, X, I) ==
    LET n == Cardinality(I)
        d(c) == n * x[c] - SumOver(X, I, c)
    IN  d(1) * d(1) + d(2) * d(2) + d(3) * d(3)

\* KMeans(n_clusters=k, ...) raises ValueError for k < 1 and for fewer
\* samples than clusters (an empty image included).
KMeansRejects(k, nSamples) == k < 1 \/ nSamples < k

\* KMeans.fit_predict (lines 62-63): the labelings a converged run can
\* return. The run depends on the library's seeded initialisation, which
\* is not computed here; every labeling is allowed that uses all k
\* labels, labels equal colours alike, and leaves each pixel at least as
\* close to its own cluster mean as to any other (a fixed point of the
\* assignment step).
KMeansLabels(X, k) ==
    { lab \in [1..Len(X) -> 0..(k - 1)] :
        /\ \A j \in 0..(k - 1) : Members(lab, j) # {}
        /\ \A a, b \in 1..Len(X) : X[a] = X[b] => lab[a] = lab[b]
        /\ \A i \in 1..Len(X) : \A m \in 0..(k - 1) :
             LET own == Members(lab, lab[i])
                 oth == Members(lab, m)
             IN  Cardinality(oth) * Cardinality(oth) * ScaledDist2(X[i], X, own)
                   <= Cardinality(own) * Cardinality(own) * ScaledDist2(X[i], X, oth) }

\* kmeans.cluster_centers_ (the per-channel mean of each cluster's
\* members) after centers.astype(np.uint8) of line 67: a mean lies in
\* 0..255, so the cast truncates its fraction.
CentersUint8(X, lab, k) ==
    [j \in 1..k |->
        [c \in 1..3 |-> SumOver(X, Members(lab, j - 1), c)
                           \div Cardinality(Members(lab, j - 1))]]

\* Line 70: quantized_pixels = centers[labels] (labels are 0-based).
\* Variant: the flattened input pixels are passed on instead.
MapToCenters_NoReassign(cs, lab, X) == X
\* Variant: the labels read as 1-based indices (off by one, wrapping).
MapToCenters_Shifted(cs, lab, X) ==
    [i \in 1..Len(lab) |-> cs[((lab[i] + 1) % Len(cs)) + 1]]
MapToCenters(cs, lab, X) == [i \in 1..Len(lab) |-> cs[lab[i] + 1]]

\* Lines 73-86 of shader_down.py: reshape, and add the alpha channel back.
\* Variant: line 80 left out, the alpha plane filled with 255.
Rebuild_Opaque(q, mode, alpha) ==
    IF mode = "RGBA"
    THEN [mode |-> "RGBA", rgb |-> q, alpha |-> [i \in 1..Len(q) |-> 255]]
    ELSE [mode |-> "RGB", rgb |-> q, alpha |-> << >>]
Rebuild(q, mode, alpha) ==
    IF mode = "RGBA"
    THEN [mode |-> "RGBA", rgb |-> q, alpha |-> alpha]
    ELSE [mode |-> "RGB", rgb |-> q, alpha |-> << >>]

\* ------------------------------------------------------------- Init
Init ==
    /\ script \in {"uniform", "cluster"}
    /\ file \in Files
    /\ png \in (IF script = "uniform" THEN BOOLEAN ELSE {FALSE})
    /\ castMode \in (IF script = "uniform" THEN CastModes ELSE {"wrap"})
    /\ num \in Counts
    /\ pc = "start"
    /\ steps = << >>
    /\ img = NoImage
    /\ original = 0
    /\ numColors = 0
    /\ labels = << >>
    /\ centers = << >>
    /\ qRgb = << >>
    /\ res = NoImage
    /\ writes = 0
    /\ exitCode = 0 - 1
    /\ err = "none"

inputs == << script, file, png, num, castMode >>

\* ------------------------------------------- color_quantizer.py actions
\* main line 88, load_image lines 9-14: the image decodes.
ULoad ==
    /\ script = "uniform" /\ pc = "start"
    /\ img' = LoadImage(file, png)
    /\ steps' = Append(steps, "load")
    /\ pc' = "loaded"
    /\ UNCHANGED << inputs, original, numColors, labels, centers, qRgb, res,
                    writes, exitCode, err >>

\* load_image lines 15-17 and main line 89: decoding raises, the error is
\* printed, None is returned, main skips the body of `if image:` and
\* returns normally, so the interpreter exits with status 0.
ULoadFail ==
    /\ script = "uniform" /\ pc = "start"
    /\ pc' = "done"
    /\ err' = "ImageLoadError"
    /\ exitCode' = 0
    /\ UNCHANGED << inputs, steps, img, original, numColors, labels, centers,
                    qRgb, res, writes >>

\* quantize_colors lines 25-48: split alpha, count, quantize each sample.
\* No value of num_shades is rejected.
UQuantize ==
    /\ script = "uniform" /\ pc = "loaded"
    /\ original' = CountUnique(img.rgb)
    /\ qRgb' = QuantizeChannels(img.rgb, num, castMode)
    /\ steps' = Append(steps, "quantize")
    /\ pc' = "quantized"
    /\ UNCHANGED << inputs, img, numColors, labels, centers, res, writes,
                    exitCode, err >>

\* quantize_colors lines 50-61: back to an image, alpha reattached.
UReattach ==
    /\ script = "uniform" /\ pc = "quantized"
    /\ res' = Reattach(qRgb, HasAlpha(img), img.alpha)
    /\ steps' = Append(steps, "merge")
    /\ pc' = "merged"
    /\ UNCHANGED << inputs, img, original, numColors, labels, centers, qRgb,
                    writes, exitCode, err >>

\* save_image lines 65-70 and the end of main: the file is written.
USave ==
    /\ script = "uniform" /\ pc = "merged"
    /\ writes' = writes + 1
    /\ steps' = Append(steps, "save")
    /\ pc' = "done"
    /\ exitCode' = 0
    /\ UNCHANGED << inputs, img, original, numColors, labels, centers, qRgb,
                    res, err >>

\* save_image line 67 or 69 raises (directory or permission): the
\* exception leaves main and the interpreter exits with status 1.
USaveFail ==
    /\ script = "uniform" /\ pc = "merged"
    /\ err' = "OutputWriteError"
    /\ pc' = "done"
    /\ exitCode' = 1
    /\ UNCHANGED << inputs, steps, img, original, numColors, labels, centers,
                    qRgb, res, writes >>

\* ----------------------------------------------- shader_down.py actions
\* Lines 22-29: the image decodes; RGBA is kept, anything else becomes RGB.
CLoad ==
    /\ script = "cluster" /\ pc = "start"
    /\ img' = (IF file.mode = "RGBA" THEN file ELSE ConvertRGB(file))
    /\ steps' = Append(steps, "load")
    /\ pc' = "loaded"
    /\ UNCHANGED << inputs, original, numColors, labels, centers, qRgb, res,
                    writes, exitCode, err >>

\* Lines 30-32 and main line 106: decoding raises, the error is printed,
\* None is returned and ignored by main: exit status 0.
\* Variant: the except block without its return, falling through to save.
CLoadFail_FallsThrough ==
    /\ script = "cluster" /\ pc = "start"
    /\ pc' = "merged"
    /\ err' = "ImageLoadError"
    /\ UNCHANGED << inputs, steps, img, original, numColors, labels, centers,
                    qRgb, res, writes, exitCode >>
CLoadFail ==
    /\ script = "cluster" /\ pc = "start"
    /\ pc' = "done"
    /\ err' = "ImageLoadError"
    /\ exitCode' = 0
    /\ UNCHANGED << inputs, steps, img, original, numColors, labels, centers,
                    qRgb, res, writes >>

\* Lines 35-58: flatten, count the distinct colours, cap num_colors.
CCount ==
    /\ script = "cluster" /\ pc = "loaded"
    /\ original' = CountUnique(img.rgb)
    /\ numColors' = EffectiveNumColors(num, CountUnique(img.rgb))
    /\ pc' = "counted"
    /\ UNCHANGED << inputs, steps, img, labels, centers, qRgb, res, writes,
                    exitCode, err >>

\* Lines 61-70: cluster, truncate the centres, map each pixel to the
\* centre of its label.
CKMeans ==
    /\ script = "cluster" /\ pc = "counted"
    /\ ~KMeansRejects(numColors, Len(img.rgb))
    /\ \E lab \in KMeansLabels(img.rgb, numColors) :
         /\ labels' = lab
         /\ centers' = CentersUint8(img.rgb, lab, numColors)
         /\ qRgb' = MapToCenters(CentersUint8(img.rgb, lab, numColors), lab, img.rgb)
    /\ steps' = Append(steps, "quantize")
    /\ pc' = "quantized"
    /\ UNCHANGED << inputs, img, original, numColors, res, writes, exitCode, err >>

\* Lines 62-63 raise: the exception leaves quantize_colors and main, and
\* the interpreter exits with status 1.
CKMeansFail ==
    /\ script = "cluster" /\ pc = "counted"
    /\ KMeansRejects(numColors, Len(img.rgb))
    /\ err' = "ValueError"
    /\ pc' = "done"
    /\ exitCode' = 1
    /\ UNCHANGED << inputs, steps, img, original, numColors, labels, centers,
                    qRgb, res, writes >>

\* Lines 72-86: the output array, alpha added back.
CReconstruct ==
    /\ script = "cluster" /\ pc = "quantized"
    /\ res' = Rebuild(qRgb, img.mode, img.alpha)
    /\ steps' = Append(steps, "merge")
    /\ pc' = "merged"
    /\ UNCHANGED << inputs, img, original, numColors, labels, centers, qRgb,
                    writes, exitCode, err >>

\* Lines 88-96 and the end of main: the file is written.
CSave ==
    /\ script = "cluster" /\ pc = "merged"
    /\ writes' = writes + 1
    /\ steps' = Append(steps, "save")
    /\ pc' = "done"
    /\ exitCode' = 0
    /\ UNCHANGED << inputs, img, original, numColors, labels, centers, qRgb,
                    res, err >>

\* Line 93 raises: exit status 1.
CSaveFail ==
    /\ script = "cluster" /\ pc = "merged"
    /\ err' = "OutputWriteError"
    /\ pc' = "done"
    /\ exitCode' = 1
    /\ UNCHANGED << inputs, steps, img, original, numColors, labels, centers,
                    qRgb, res, writes >>

Next ==
    \/ ULoad \/ ULoadFail \/ UQuantize \/ UReattach \/ USave \/ USaveFail
    \/ CLoad \/ CLoadFail \/ CCount \/ CKMeans \/ CKMeansFail
    \/ CReconstruct \/ CSave \/ CSaveFail

Spec == Init /\ [][Next]_vars

\* ------------------------------------------------------------ claims
\* Step s of the run has completed.
Did(s) == \E i \in 1..Len(steps) : steps[i] = s

\* The samples of an RGB buffer.
Samples(rgb) == { rgb[i][c] : i \in 1..Len(rgb), c \in 1..3 }

\* A count the quantizer of the running script is specified for.
ValidCount == IF script = "uniform" THEN num >= 2 ELSE num >= 1

\* The n levels i*255/(n-1), i in 0..n-1, the fraction dropped.
GridLevels(n) == { (i * 255) \div (n - 1) : i \in 0..(n - 1) }

\* The same levels rounded to the nearest integer instead.
RoundedLevels(n) == { (2 * i * 255 + (n - 1)) \div (2 * (n - 1)) : i \in 0..(n - 1) }

\* Steps 1-4 of the specified algorithm: round to nearest, then clamp.
Reference(v, n) ==
    LET level == (v * n) \div 255
        r == (2 * level * 255 + (n - 1)) \div (2 * (n - 1))
    IN  IF r > 255 THEN 255 ELSE r

\* C1: after the Uniform Quantizer ran with N >= 2 shades on a buffer that
\* holds the sample 255, every output sample is one of the N levels
\* i*255/(N-1) (up to rounding), and over all v in 0..255 the quantizer
\* produces exactly N distinct outputs.
C1_ExactlyNLevels ==
    (script = "uniform" /\ num >= 2 /\ Did("quantize")
       /\ 255 \in Samples(img.rgb)) =>
        /\ Samples(qRgb) \subseteq (GridLevels(num) \cup RoundedLevels(num))
        /\ Cardinality({ QuantizeSample(v, num, castMode) : v \in 0..255 }) = num

\* C2: once the output image is rebuilt it has the channel layout and the
\* pixel count of the quantizer's input image and, pixel for pixel, its
\* alpha samples; the quantizer's input has the file's layout and alpha
\* (shader_down always; color_quantizer unless load_image converted a
\* 3-channel .png to RGBA).
C2_AlphaAndLayout ==
    Did("merge") =>
        /\ res.mode = img.mode
        /\ Len(res.rgb) = Len(img.rgb)
        /\ res.alpha = img.alpha
        /\ img.mode = "RGBA" => Len(res.alpha) = Len(img.rgb)
        /\ img.mode = "RGB" => res.alpha = << >>
        /\ (script = "cluster" \/ ~png \/ file.mode = "RGBA") =>
               (img.mode = file.mode /\ img.alpha = file.alpha)

\* C2 witness: a 4-channel image with a transparent pixel was rebuilt by
\* shader_down with changed RGB samples.
C2_Witness ==
    /\ script = "cluster" /\ Did("merge") /\ img.mode = "RGBA"
    /\ \E i \in 1..Len(img.alpha) : img.alpha[i] = 0
    /\ res.rgb # img.rgb
    /\ res.alpha = file.alpha

\* C3: after the Cluster Quantizer ran on D distinct colours with K
\* requested, the palette has exactly min(K, D) entries, every label is an
\* index below min(K, D), every output pixel is the palette entry of its
\* label, and the output has at most min(K, D) distinct colours.
C3_PaletteAndLabels ==
    (script = "cluster" /\ Did("quantize")) =>
        LET m == Min(num, original)
        IN  /\ Len(centers) = m
            /\ Len(labels) = Len(img.rgb)
            /\ \A i \in 1..Len(labels) : labels[i] \in 0..(m - 1)
            /\ Len(qRgb) = Len(img.rgb)
            /\ \A i \in 1..Len(qRgb) : qRgb[i] = centers[labels[i] + 1]
            /\ CountUnique(qRgb) <= m

\* C3 witness: K = 2 clusters were fitted to an image of 3 distinct colours.
C3_Witness ==
    /\ script = "cluster" /\ Did("quantize")
    /\ num = 2 /\ original = 3 /\ Len(centers) = 2
    /\ CountUnique(qRgb) = 2

\* C4 (as stated): after either quantizer ran with a valid count, the
\* output has no more distinct colours than the input, and strictly fewer
\* whenever the requested count is below the input's distinct count.
C4_Original ==
    (Did("quantize") /\ ValidCount) =>
        /\ CountUnique(qRgb) <= original
        /\ num < original => CountUnique(qRgb) < original

\* C4 (amended): after either quantizer ran with a valid count, the output
\* has no more distinct colours than the input; for the Cluster Quantizer
\* it has strictly fewer whenever the requested count is below the input's
\* distinct count.
C4_Amended ==
    (Did("quantize") /\ ValidCount) =>
        /\ CountUnique(qRgb) <= original
        /\ (script = "cluster" /\ num < original) => CountUnique(qRgb) < original

\* C4 witness: the Cluster Quantizer reduced 3 distinct colours to fewer
\* with K below 3.
C4_Witness ==
    /\ script = "cluster" /\ Did("quantize") /\ ValidCount
    /\ num < original /\ original = 3
    /\ CountUnique(qRgb) < original

\* C5: a run of the Uniform Quantizer with N <= 1 that loaded a non-empty
\* image (and whose output location is writable) ends in the error
\* InvalidShadeCount, having written no file and not reached the save step.
C5_InvalidShadeCountRejected ==
    (script = "uniform" /\ num <= 1 /\ pc = "done" /\ Did("load")
       /\ Len(img.rgb) > 0 /\ err # "OutputWriteError") =>
        /\ err = "InvalidShadeCount"
        /\ writes = 0
        /\ ~Did("save")

\* C6: the output file is written at most once, and only after load,
\* quantize and reconstruction completed in that order with no error, the
\* image saved being the reconstructed one; a run that ended in an error
\* wrote nothing, and a shader_down run with K < 1 or an empty image
\* never writes.
C6_WriteOnceAfterAll ==
    /\ writes <= 1
    /\ Did("save") <=> writes = 1
    /\ writes = 1 =>
          /\ steps = << "load", "quantize", "merge", "save" >>
          /\ err = "none"
          /\ res.rgb = qRgb /\ res.mode = img.mode
    /\ err # "none" => writes = 0
    /\ (script = "cluster" /\ (num < 1 \/ Len(file.rgb) = 0)) => writes = 0

\* C6 witness: a run wrote its file.
C6_Witness ==
    /\ pc = "done" /\ writes = 1 /\ Len(res.rgb) > 0

\* C7: the Uniform Quantizer with N >= 2 leaves grid-aligned input
\* unchanged: a buffer whose samples are all quantization levels of N is
\* returned as it is, and quantizing the output again changes nothing.
C7_IdempotentOnGrid ==
    (script = "uniform" /\ num >= 2 /\ Did("quantize")) =>
        /\ Samples(img.rgb) \subseteq GridLevels(num) => qRgb = img.rgb
        /\ QuantizeChannels(qRgb, num, castMode) = qRgb

C9_ExitCodes ==
    pc = "done" =>
        /\ ~Did("load") =>
              (exitCode # 0 /\ ~Did("quantize") /\ ~Did("save"))
        /\ exitCode = 0 =>
              (Did("load") /\ Did("quantize") /\ Did("save"))

\* C10: every sample the Uniform Quantizer produced with N >= 2 is the
\* reference value of its input sample v: level = floor(v*N/255), then
\* level*255/(N-1) rounded to the nearest integer and clamped to 0..255.
C10_MatchesReference ==
    (script = "uniform" /\ num >= 2 /\ Did("quantize")) =>
        \A i \in 1..Len(qRgb) : \A c \in 1..3 :
            qRgb[i][c] = Reference(img.rgb[i][c], num)

====
